---------------------------- MODULE Spec2Model ----------------------------
(***************************************************************************)
(* Model of the query-to-pipeline compiler of mongoose-search-engine       *)
(* (src/src/index.ts, class SearchService).                                *)
(*                                                                         *)
(* JavaScript values are records [kind, s, b, l, o]: kind is the runtime   *)
(* type, s the characters of a string (a sequence of atoms: one atom per   *)
(* character, a MongoDB operator name or a message literal being one       *)
(* atom), b a boolean, l the elements of an array and o the entries of an  *)
(* object in insertion order.  A call's outcome is a record                *)
(* [err, val, msg]: err is "none" or the class of the exception thrown.    *)
(***************************************************************************)
EXTENDS Integers, Sequences, FiniteSets, TLC

VARIABLES
    paginatedQuery,        \* search / createAggregation: the PaginatedQuery
    lookup,                \* the caller-supplied lookup stages
    append,                \* the extra pre-condition (null when absent)
    appendPostConditions,  \* the extra post-condition (null when absent)
    countOnly,             \* search: countOnly
    ignorePagination,      \* search: ignorePagination; createAggregation: ignoreSort
    propertyName,          \* createPropertyFilterRow: propertyName
    condition,             \* createPropertyFilterRow: condition
    as,                    \* lookupWithNestedPipeline: as
    nestedPipeline,        \* lookupWithNestedPipeline: nestedPipeline
    fieldPath,             \* lookupWithNestedPipeline: fieldPath
    isArray,               \* lookupWithNestedPipeline: isArray
    pc,                    \* the operation that produced ret ("start": none yet)
    ret,                   \* the outcome of that operation
    executorCalls          \* the executor primitives invoked, in order

vars == <<paginatedQuery, lookup, append, appendPostConditions, countOnly,
          ignorePagination, propertyName, condition, as, nestedPipeline, fieldPath,
          isArray, pc, ret, executorCalls>>

-----------------------------------------------------------------------------
(* Bounds of the model.                                                    *)

MaxValues == 2
MaxConds == 2
MaxQuickFields == 2
MaxSelect == 2
MaxLookups == 2
MaxRows == 2

-----------------------------------------------------------------------------
(* JavaScript values.                                                      *)

Undefined == [kind |-> "undefined", s |-> <<>>, b |-> FALSE, l |-> <<>>, o |-> <<>>]
Null == [kind |-> "null", s |-> <<>>, b |-> FALSE, l |-> <<>>, o |-> <<>>]
Str(x) == [kind |-> "string", s |-> x, b |-> FALSE, l |-> <<>>, o |-> <<>>]
Bool(x) == [kind |-> "boolean", s |-> <<>>, b |-> x, l |-> <<>>, o |-> <<>>]
Num(x) == [kind |-> "number", s |-> x, b |-> FALSE, l |-> <<>>, o |-> <<>>]
Arr(x) == [kind |-> "array", s |-> <<>>, b |-> FALSE, l |-> x, o |-> <<>>]
Obj(x) == [kind |-> "object", s |-> <<>>, b |-> FALSE, l |-> <<>>, o |-> x]
ObjectId(x) == [kind |-> "ObjectId", s |-> x, b |-> FALSE, l |-> <<>>, o |-> <<>>]
KV(k, v) == [k |-> k, v |-> v]
EmptyObj == Obj(<<>>)
One == Num(<<"1">>)
MinusOne == Num(<<"-1">>)

Range(f) == {f[i] : i \in DOMAIN f}

\* ToBoolean: the falsy values are undefined, null, "", false and 0.
Truthy(v) ==
    ~ \/ v.kind \in {"undefined", "null"}
      \/ v.kind = "string" /\ v.s = <<>>
      \/ v.kind = "boolean" /\ ~v.b
      \/ v.kind = "number" /\ v.s = <<"0">>

IsArray(v) == v.kind = "array"

\* obj[key]: undefined when the key is missing.
Has(obj, key) == \E i \in DOMAIN obj.o : obj.o[i].k = key
Get(obj, key) ==
    IF Has(obj, key)
    THEN obj.o[CHOOSE i \in DOMAIN obj.o : obj.o[i].k = key].v
    ELSE Undefined
Keys(obj) == [i \in DOMAIN obj.o |-> obj.o[i].k]

\* { ...obj, [key]: v }: an existing key keeps its place, a new one goes last.
Put(obj, key, v) ==
    IF Has(obj, key)
    THEN Obj([i \in DOMAIN obj.o |->
              IF obj.o[i].k = key THEN KV(key, v) ELSE obj.o[i]])
    ELSE Obj(Append(obj.o, KV(key, v)))

\* A template literal's or a computed key's string conversion.
ToStr(v) ==
    CASE v.kind \in {"string", "number", "ObjectId"} -> v.s
      [] v.kind = "boolean" -> IF v.b THEN <<"true">> ELSE <<"false">>
      [] v.kind = "undefined" -> <<"undefined">>
      [] v.kind = "null" -> <<"null">>
      [] OTHER -> <<"[object]">>

\* String.prototype.includes / startsWith / substring / split(sep)[0].
Includes(str, atom) == \E i \in DOMAIN str : str[i] = atom
StartsWith(str, prefix) ==
    Len(prefix) <= Len(str) /\ SubSeq(str, 1, Len(prefix)) = prefix
Substring(str, n) == SubSeq(str, n + 1, Len(str))
SplitFirst(str, sep) ==
    IF Includes(str, sep)
    THEN SubSeq(str, 1, (CHOOSE i \in DOMAIN str :
                           str[i] = sep /\ \A j \in 1..(i - 1) : str[j] # sep) - 1)
    ELSE str

Ok(v) == [err |-> "none", val |-> v, msg |-> <<>>]
BadRequestException(m) == [err |-> "BadRequestException", val |-> Undefined, msg |-> m]
TypeError == [err |-> "TypeError", val |-> Undefined, msg |-> <<>>]
NoResult == [err |-> "none", val |-> Undefined, msg |-> <<>>]

\* The outcome of mapping a throwing function over a list: the first
\* exception in list order, else the array of the values.
MapResults(rs) ==
    IF \E i \in DOMAIN rs : rs[i].err # "none"
    THEN rs[CHOOSE i \in DOMAIN rs :
              rs[i].err # "none" /\ \A j \in 1..(i - 1) : rs[j].err = "none"]
    ELSE Ok(Arr([i \in DOMAIN rs |-> rs[i].val]))

-----------------------------------------------------------------------------
(* Identifier-shape tests.                                                 *)

HexDigits == {"0", "1", "2", "3", "4", "5", "6", "7", "8", "9",
              "a", "b", "c", "d", "e", "f", "A", "B", "C", "D", "E", "F"}

\* IsValidHexString: even length and /^[0-9A-F]+$/i.
IsValidHexString(str) ==
    IF Len(str) % 2 # 0 THEN FALSE
    ELSE Len(str) > 0 /\ \A i \in DOMAIN str : str[i] \in HexDigits

\* mongoose.isValidObjectId on the values a condition carries: a string of
\* 12 characters, or of 24 hexadecimal characters.
IsValidObjectId(v) ==
    /\ v.kind = "string"
    /\ \/ Len(v.s) = 12
       \/ Len(v.s) = 24 /\ \A i \in DOMAIN v.s : v.s[i] \in HexDigits

\* item => isValidObjectId(item) && IsValidHexString(item) ? new ObjectId(item) : item
ToIdOrLiteral(item) ==
    IF IsValidObjectId(item) /\ IsValidHexString(ToStr(item))
    THEN ObjectId(item.s)
    ELSE item

-----------------------------------------------------------------------------
(* Condition compiler.                                                     *)

MatchModes == {"contains", "arrayContains", "arrayContainsObject", "between",
               "equals", "notEquals", "greaterThan", "greaterThanOrEqual",
               "lessThan", "lessThanOrEqual", "exists"}

\* { [propertyName]: { [op]: value } }
Cmp(name, op, value) == Obj(<<KV(name, Obj(<<KV(<<op>>, value)>>))>>)
Regex(name, value) ==
    Obj(<<KV(name, Obj(<<KV(<<"$regex">>, value), KV(<<"$options">>, Str(<<"i">>))>>))>>)
OrOf(frags) == Obj(<<KV(<<"$or">>, Arr(frags))>>)
AndOf(frags) == Obj(<<KV(<<"$and">>, Arr(frags))>>)

\* The branch shared by notEquals, greaterThan, ..., exists.
ScalarOrList(name, op, value) ==
    IF ~IsArray(value) THEN Cmp(name, op, value)
    ELSE OrOf([i \in DOMAIN value.l |-> Cmp(name, op, value.l[i])])

EqualsRow(name, value) ==
    IF ~IsArray(value) THEN Obj(<<KV(name, ToIdOrLiteral(value))>>)
    ELSE OrOf([i \in DOMAIN value.l |-> Obj(<<KV(name, ToIdOrLiteral(value.l[i]))>>)])

\* value[i] of a JavaScript array: undefined past the end.
At(arr, i) == IF i \in DOMAIN arr.l THEN arr.l[i] ELSE Undefined

\* between without the check that its value is a list.
BetweenRowUnchecked(name, value) ==
    Ok(Obj(<<KV(name, Obj(<<KV(<<"$gte">>, At(value, 1)),
                            KV(<<"$lte">>, At(value, 2))>>))>>))

BetweenRow(name, value) ==
    IF ~IsArray(value)
    THEN BadRequestException(<<"Property ">> \o name
                             \o <<": between matchMode requires array value">>)
    ELSE Ok(Obj(<<KV(name, Obj(<<KV(<<"$gte">>, At(value, 1)),
                                 KV(<<"$lte">>, At(value, 2))>>))>>))

\* Array.isArray(value) ? value : [value], each element through ToIdOrLiteral.
InFilter(value) ==
    LET filter == IF IsArray(value) THEN value.l ELSE <<value>>
    IN  Arr([i \in DOMAIN filter |-> ToIdOrLiteral(filter[i])])

ComparisonRow(name, op, value) == ScalarOrList(name, op, value)

\* The body of createPropertyFilterRow, once the condition is destructured.
PropertyFilterRow(name, value, matchMode, objectPropertyName) ==
    IF ~Truthy(value)
    THEN BadRequestException(<<"Property ">> \o name \o <<": Filter Value is required">>)
    ELSE IF ~Truthy(matchMode)
    THEN BadRequestException(<<"Property ">> \o name \o <<": Filter matchMode is required">>)
    ELSE IF matchMode = Str(<<"contains">>)
    THEN Ok(IF ~IsArray(value) THEN Regex(name, value)
            ELSE OrOf([i \in DOMAIN value.l |-> Regex(name, value.l[i])]))
    ELSE IF matchMode = Str(<<"notEquals">>) THEN Ok(ComparisonRow(name, "$ne", value))
    ELSE IF matchMode = Str(<<"greaterThan">>) THEN Ok(ComparisonRow(name, "$gt", value))
    ELSE IF matchMode = Str(<<"greaterThanOrEqual">>) THEN Ok(ComparisonRow(name, "$gte", value))
    ELSE IF matchMode = Str(<<"lessThan">>) THEN Ok(ComparisonRow(name, "$lt", value))
    ELSE IF matchMode = Str(<<"lessThanOrEqual">>) THEN Ok(ComparisonRow(name, "$lte", value))
    ELSE IF matchMode = Str(<<"equals">>) THEN Ok(EqualsRow(name, value))
    ELSE IF matchMode = Str(<<"between">>) THEN BetweenRow(name, value)
    ELSE IF matchMode = Str(<<"arrayContains">>)
    THEN Ok(Cmp(name, "$in", InFilter(value)))
    ELSE IF matchMode = Str(<<"arrayContainsObject">>)
    THEN Ok(Cmp(name, "$elemMatch",
                Obj(<<KV(ToStr(objectPropertyName),
                         Obj(<<KV(<<"$in">>, InFilter(value))>>))>>)))
    ELSE IF matchMode = Str(<<"exists">>) THEN Ok(ComparisonRow(name, "$exists", value))
    ELSE BadRequestException(<<"Property ">> \o name \o <<": Unknown match mode: ">>
                             \o ToStr(matchMode))

\* createPropertyFilterRow
createPropertyFilterRow(name, cond) ==
    PropertyFilterRow(name, Get(cond, <<"value">>), Get(cond, <<"matchMode">>),
                      Get(cond, <<"property">>))

\* createQuickPropertyFilterRow
createQuickPropertyFilterRow(name, value) == Regex(name, value)


-----------------------------------------------------------------------------
(* Filter assembler.                                                       *)

\* createFilterGroup
\* { [useAndCondition ? "$and" : "$or"]: filters }, unless a row threw.
GroupOf(filters, useAndCondition) ==
    IF filters.err # "none" THEN filters
    ELSE Ok(Obj(<<KV(<<IF useAndCondition THEN "$and" ELSE "$or">>, filters.val)>>))

createFilterGroup(name, conditions, useAndCondition) ==
    IF Len(conditions) = 0 THEN Ok(EmptyObj)
    ELSE GroupOf(MapResults([i \in DOMAIN conditions |->
                               createPropertyFilterRow(name, conditions[i])]),
                 useAndCondition)

\* condition.required && condition.required === true
IsAndCondition(c) ==
    Truthy(Get(c, <<"required">>)) /\ Get(c, <<"required">>) = Bool(TRUE)

\* condition.required === false: a condition without `required` is in no group.
IsOrConditionStrict(c) == Get(c, <<"required">>) = Bool(FALSE)

\* !condition.required
IsOrCondition(c) == ~Truthy(Get(c, <<"required">>))

\* conditions.length of a value that is not null or undefined.
LengthOf(v) ==
    CASE v.kind = "array" -> Len(v.l)
      [] v.kind = "string" -> Len(v.s)
      [] OTHER -> -1

\* { $and: [andGroup, orGroup] }; the AND group is compiled first.
BothGroups(andGroup, orGroup) ==
    IF andGroup.err # "none" THEN andGroup
    ELSE IF orGroup.err # "none" THEN orGroup
    ELSE Ok(AndOf(<<andGroup.val, orGroup.val>>))

\* createPropertyFilter
createPropertyFilter(name, conditions) ==
    IF conditions.kind \in {"undefined", "null"} THEN TypeError
    ELSE IF LengthOf(conditions) = 0 THEN Ok(EmptyObj)
    ELSE IF ~IsArray(conditions)
    THEN BadRequestException(<<"Conditions for ">> \o name \o <<" must be an array">>)
    ELSE IF \E i \in DOMAIN conditions.l : conditions.l[i].kind \in {"undefined", "null"}
    THEN TypeError
    ELSE BothGroups(
             createFilterGroup(name, SelectSeq(conditions.l, IsAndCondition), TRUE),
             createFilterGroup(name, SelectSeq(conditions.l, IsOrCondition), FALSE))

\* hasArrayObjectCondition: filters.some(...) throws on a value without some().
HasSome(filter) == IsArray(filter)
hasArrayObjectCondition(filter) ==
    \E i \in DOMAIN filter.l :
        Get(filter.l[i], <<"matchMode">>) = Str(<<"arrayContainsObject">>)

\* Routing by the dot alone.
RoutesByDotOnly(k, filter) == Includes(k, ".")

\* k.includes(".") || hasArrayObjectCondition(filter)
RoutesToPost(k, filter) == Includes(k, ".") \/ hasArrayObjectCondition(filter)

\* One turn of the loop of createFilters, for the entry at index i.
FieldResult(query, i) ==
    LET k == query.o[i].k
        filter == query.o[i].v
    IN  IF ~Includes(k, ".") /\ ~HasSome(filter) THEN TypeError
        ELSE IF ~Includes(k, ".") /\ \E j \in DOMAIN filter.l :
                     filter.l[j].kind \in {"undefined", "null"}
        THEN TypeError
        ELSE createPropertyFilter(k, filter)

FieldIsPost(query, i) == RoutesToPost(query.o[i].k, query.o[i].v)

\* conditions.length > 0 && { $and: conditions }
AndOrFalse(conditions) ==
    IF Len(conditions) > 0 THEN AndOf(conditions) ELSE Bool(FALSE)

\* The indices of the query's entries, in order, that route to post (or pre).
RoutedIndices(query, toPost) ==
    SelectSeq([i \in DOMAIN query.o |-> i], LAMBDA i : FieldIsPost(query, i) = toPost)

\* The fragments pushed to one side, then the extra condition if any.
SideConditions(frags, indices, extra) ==
    [j \in DOMAIN indices |-> frags[indices[j]]]
    \o (IF Truthy(extra) THEN <<extra>> ELSE <<>>)

\* The return value of createFilters from the fragments of its loop.
FiltersOf(query, rs, app, appPost) ==
    IF rs.err # "none" THEN rs
    ELSE Ok(Obj(<<KV(<<"preConditions">>,
                     AndOrFalse(SideConditions(rs.val.l, RoutedIndices(query, FALSE), app))),
                  KV(<<"postConditions">>,
                     AndOrFalse(SideConditions(rs.val.l, RoutedIndices(query, TRUE),
                                               appPost)))>>))

\* createFilters
createFilters(query, app, appPost) ==
    IF ~Truthy(query) THEN BadRequestException(<<"Filters: Query must not be null">>)
    ELSE FiltersOf(query, MapResults([i \in DOMAIN query.o |-> FieldResult(query, i)]),
                   app, appPost)

\* getFilterFields
getFilterFields(query) == IF ~Truthy(query) THEN <<>> ELSE Keys(query)

-----------------------------------------------------------------------------
(* Quick-search assembler.                                                 *)

\* findIndex(...) > 0: a dotted first field is not seen.
hasAggregatedFieldsAfterFirst(fields) ==
    \E i \in DOMAIN fields.l : i > 1 /\ Includes(fields.l[i].s, ".")

\* fields.findIndex((field) => field.includes(".")) > -1
hasAggregatedFields(fields) == \E i \in DOMAIN fields.l : Includes(fields.l[i].s, ".")

\* [...(extra ? [extra] : []), ...(conditions.length > 0 ? [{$or: conditions}] : [])]
\* wrapped in $and when not empty.
QuickGroup(extra, conditions) ==
    LET rows == (IF Truthy(extra) THEN <<extra>> ELSE <<>>)
                \o (IF Len(conditions) > 0 THEN <<OrOf(conditions)>> ELSE <<>>)
    IN  IF Len(rows) > 0 THEN AndOf(rows) ELSE EmptyObj

\* The body of createQuickFilter, once the query is destructured.
QuickFilter(value, fields, app, appPost) ==
    IF ~Truthy(value) THEN BadRequestException(<<"QuickFilter: Filter Value is required">>)
    ELSE IF ~Truthy(fields) THEN BadRequestException(<<"QuickFilter: Fields are required">>)
    ELSE IF ~IsArray(fields)
    THEN BadRequestException(<<"QuickFilter: Fields should be an array">>)
    ELSE
    LET rows == [i \in DOMAIN fields.l |->
                    createQuickPropertyFilterRow(fields.l[i].s, value)]
        preConditions == IF hasAggregatedFields(fields) THEN <<>> ELSE rows
        postConditions == IF hasAggregatedFields(fields) THEN rows ELSE <<>>
    IN  Ok(Obj(<<KV(<<"preConditions">>, QuickGroup(app, preConditions)),
                 KV(<<"postConditions">>, QuickGroup(appPost, postConditions))>>))

\* createQuickFilter
createQuickFilter(query, app, appPost) ==
    IF ~Truthy(query) THEN BadRequestException(<<"QuickFilter: Query cannot be null">>)
    ELSE QuickFilter(Get(query, <<"value">>), Get(query, <<"fields">>), app, appPost)

-----------------------------------------------------------------------------
(* Structural merge (deepmerge-ts defaults: records merge key-wise, arrays  *)
(* concatenate, anything else is replaced by the later value).             *)

RECURSIVE deepmerge(_, _)
deepmerge(x, y) ==
    IF x.kind = "object" /\ y.kind = "object"
    THEN LET keys == Keys(x) \o SelectSeq(Keys(y), LAMBDA k : ~Has(x, k))
         IN  Obj([i \in DOMAIN keys |->
                    KV(keys[i],
                       IF Has(x, keys[i]) /\ Has(y, keys[i])
                       THEN deepmerge(Get(x, keys[i]), Get(y, keys[i]))
                       ELSE IF Has(y, keys[i]) THEN Get(y, keys[i])
                       ELSE Get(x, keys[i]))])
    ELSE IF x.kind = "array" /\ y.kind = "array" THEN Arr(x.l \o y.l)
    ELSE y

\* args.reduce((acc, curr) => deepmerge(acc, curr), {})
RECURSIVE MergeFrom(_, _)
MergeFrom(acc, args) ==
    IF args = <<>> THEN acc
    ELSE MergeFrom(deepmerge(acc, Head(args)), Tail(args))

\* Object.assign in place of the deep merge: a later key replaces an earlier one.
RECURSIVE AssignFrom(_, _)
AssignFrom(acc, args) ==
    IF args = <<>> THEN acc
    ELSE AssignFrom(
             IF acc.kind = "object" /\ Head(args).kind = "object"
             THEN Obj(SelectSeq(acc.o, LAMBDA e : ~Has(Head(args), e.k)) \o Head(args).o)
             ELSE Head(args),
             Tail(args))
pipeAssignObject(args) == AssignFrom(EmptyObj, args)

pipeMergeObject(args) == MergeFrom(EmptyObj, args)

\* { ...v }: the own entries of an object, the indexed elements of an array,
\* nothing of a primitive.
Spread(v) ==
    CASE v.kind = "object" -> v
      [] v.kind = "array" -> Obj([i \in DOMAIN v.l |-> KV(<<ToString(i - 1)>>, v.l[i])])
      [] OTHER -> EmptyObj

\* a ?? b
Coalesce(a, b) == IF a.kind \in {"undefined", "null"} THEN b ELSE a

-----------------------------------------------------------------------------
(* Projection planner.                                                     *)

Stage(name, body) == Obj(<<KV(<<name>>, body)>>)

\* fields.reduce((o, field) => ({ ...o, [field]: 1 }), {})
RECURSIVE FieldsToProject(_, _)
FieldsToProject(o, fields) ==
    IF fields = <<>> THEN o
    ELSE FieldsToProject(Put(o, Head(fields), One), Tail(fields))

\* The `as` of every stage of the aggregation that has a $lookup.
AsColumns(aggregation) ==
    LET lookups == SelectSeq(aggregation, LAMBDA st :
                       Get(st, <<"$lookup">>).kind \notin {"undefined", "null"})
    IN  [i \in DOMAIN lookups |-> Get(Get(lookups[i], <<"$lookup">>), <<"as">>)]

\* Every dotted filter field cut to its first segment, lookup or not.
ProjectFilterFieldAlways(field, asColumns) == SplitFirst(field, ".")

\* The filter-field mapping of project.
ProjectFilterField(field, asColumns) ==
    IF Includes(field, ".") /\ Str(SplitFirst(field, ".")) \in Range(asColumns)
    THEN SplitFirst(field, ".")
    ELSE field

\* SearchService.project
project(query, aggregation) ==
    IF query.kind \notin {"undefined", "null"} /\ Truthy(Get(query, <<"select">>))
    THEN LET select == Get(query, <<"select">>).l
             locals == SelectSeq(select, LAMBDA f :
                           Get(f, <<"externalDocument">>) # Bool(TRUE))
             externals == SelectSeq(select, LAMBDA f :
                              Get(f, <<"externalDocument">>) = Bool(TRUE))
             fields == [i \in DOMAIN locals |-> Get(locals[i], <<"field">>).s]
             references == [i \in DOMAIN externals |->
                               SplitFirst(Get(externals[i], <<"field">>).s, ".")]
             asColumns == AsColumns(aggregation)
             ff == getFilterFields(Get(query, <<"query">>))
             filterFields == [i \in DOMAIN ff |-> ProjectFilterField(ff[i], asColumns)]
         IN  <<Stage("$project",
                     FieldsToProject(EmptyObj,
                         fields \o references \o filterFields
                         \o <<(<<"testCenter">>), (<<"customer">>)>>))>>
    ELSE <<>>

-----------------------------------------------------------------------------
(* Join planner.                                                           *)

\* ...((project || nestedPipeline) && { pipeline: [...nestedPipeline, {$project}] })
LookupPipeline(nested, proj) ==
    IF Truthy(proj) \/ Truthy(nested)
    THEN <<KV(<<"pipeline">>,
              Arr((IF Truthy(nested) THEN nested.l ELSE <<>>)
                  \o (IF Truthy(proj) THEN <<Stage("$project", proj)>> ELSE <<>>)))>>
    ELSE <<>>

\* SearchService.createLookup
createLookup(from, localField, foreignField, name, nested, proj, arr) ==
    <<Stage("$lookup",
            Obj(<<KV(<<"from">>, from), KV(<<"localField">>, localField),
                  KV(<<"foreignField">>, foreignField)>>
                \o LookupPipeline(nested, proj)
                \o <<KV(<<"as">>, Str(name))>>))>>
    \o (IF arr THEN <<>>
        ELSE <<Stage("$set",
                     Obj(<<KV(name, Obj(<<KV(<<"$arrayElemAt">>,
                                            Arr(<<Str(<<"$">> \o name),
                                                  Num(<<"0">>)>>))>>))>>))>>)

\* fieldPath ? `${fieldPath}.` : `${as}.`
ColumnPrefix(name, path) == (IF Truthy(path) THEN ToStr(path) ELSE name) \o <<".">>

\* The suffixes of the externalDocument select entries under the prefix.
SelectedSubFields(select, prefix) ==
    LET picked == SelectSeq(select, LAMBDA f :
                      /\ Get(f, <<"externalDocument">>) = Bool(TRUE)
                      /\ StartsWith(Get(f, <<"field">>).s, prefix))
    IN  [i \in DOMAIN picked |-> Substring(Get(picked[i], <<"field">>).s, Len(prefix))]

\* The `as` of the $lookup stages of the nested pipeline.
NestedCollection(nested) ==
    IF Truthy(nested) /\ Len(nested.l) > 0
    THEN LET joins == SelectSeq(nested.l, LAMBDA st :
                          /\ Truthy(Get(st, <<"$lookup">>))
                          /\ Truthy(Get(Get(st, <<"$lookup">>), <<"as">>)))
         IN  [i \in DOMAIN joins |-> Get(Get(joins[i], <<"$lookup">>), <<"as">>).s]
    ELSE <<>>

\* fixNested: the first nested collection the field name starts with.
fixNested(nestedCollections, fieldName) ==
    IF \E i \in DOMAIN nestedCollections : StartsWith(fieldName, nestedCollections[i])
    THEN nestedCollections[CHOOSE i \in DOMAIN nestedCollections :
            /\ StartsWith(fieldName, nestedCollections[i])
            /\ \A j \in 1..(i - 1) : ~StartsWith(fieldName, nestedCollections[j])]
    ELSE fieldName

\* The suffixes of the filter fields under the prefix.
FilterSubFields(query, prefix) ==
    LET picked == SelectSeq(getFilterFields(query), LAMBDA f : StartsWith(f, prefix))
    IN  [i \in DOMAIN picked |-> Substring(picked[i], Len(prefix))]

\* The merged list without the filter fields.
SubFieldsSelectOnly(select, query, nestedCollections, prefix) ==
    [i \in DOMAIN SelectedSubFields(select, prefix) |->
        fixNested(nestedCollections, SelectedSubFields(select, prefix)[i])]

\* fields.concat(filterFields).map(item => fixNested(nestedCollection, item))
SubFields(select, query, nestedCollections, prefix) ==
    [i \in DOMAIN (SelectedSubFields(select, prefix) \o FilterSubFields(query, prefix)) |->
        fixNested(nestedCollections,
                  (SelectedSubFields(select, prefix) \o FilterSubFields(query, prefix))[i])]

\* The lookup for a computed sub-field list: none when the list is empty.
LookupFor(from, localField, foreignField, name, nested, fields, arr) ==
    IF Len(fields) > 0
    THEN createLookup(from, localField, foreignField, name, nested,
                      FieldsToProject(EmptyObj, fields), arr)
    ELSE <<>>

\* SearchService.lookupWithNestedPipeline
lookupWithNestedPipeline(from, localField, foreignField, name, nested, query, path, arr) ==
    IF query.kind \in {"undefined", "null"} \/ ~Truthy(Get(query, <<"select">>))
    THEN createLookup(from, localField, foreignField, name, nested, Null, arr)
    ELSE LookupFor(from, localField, foreignField, name, nested,
                   SubFields(Get(query, <<"select">>).l, Get(query, <<"query">>),
                             NestedCollection(nested), ColumnPrefix(name, path)),
                   arr)

-----------------------------------------------------------------------------
(* Pipeline builder.                                                       *)

\* createSortStage
createSortStage(pq) ==
    LET sortKey == Get(pq, <<"sortKey">>)
        sortOrder == Get(pq, <<"sortOrder">>)
    IN  IF Truthy(sortKey)
        THEN <<Stage("$sort",
                     Obj(<<KV(ToStr(sortKey),
                              IF sortOrder = Str(<<"desc">>) THEN MinusOne ELSE One)>>))>>
        ELSE <<>>

\* The third argument of both merges: the extra condition only when neither
\* query nor searchQuery is set.
Fallback(query, searchQuery, extra) ==
    IF ~Truthy(query) /\ ~Truthy(searchQuery)
    THEN (IF Truthy(extra) THEN extra ELSE Arr(<<>>))
    ELSE EmptyObj

\* filtersCondition?.preConditions ?? {}
SideOf(cond, side) ==
    IF cond.kind \in {"undefined", "null"} THEN EmptyObj
    ELSE Coalesce(Get(cond, <<side>>), EmptyObj)

MergedConditions(filtersCondition, quickFilterCondition, query, searchQuery, extra, side) ==
    pipeMergeObject(<<SideOf(filtersCondition, side),
                      SideOf(quickFilterCondition, side),
                      Fallback(query, searchQuery, extra)>>)

\* The lookup stages after the second $match.
AggregationLookupsLast(pq, lkp, mergedPre, mergedPost, ignoreSort) ==
    <<Stage("$match", Spread(mergedPre))>>
    \o <<Stage("$match", Spread(mergedPost))>>
    \o (IF Truthy(lkp) THEN lkp.l ELSE <<>>)
    \o (IF ignoreSort THEN <<>> ELSE createSortStage(pq))

\* The stage array before the projection is prepended.
Aggregation(pq, lkp, mergedPre, mergedPost, ignoreSort) ==
    <<Stage("$match", Spread(mergedPre))>>
    \o (IF Truthy(lkp) THEN lkp.l ELSE <<>>)
    \o <<Stage("$match", Spread(mergedPost))>>
    \o (IF ignoreSort THEN <<>> ELSE createSortStage(pq))

\* project.concat(aggregation)
Assemble(pq, aggregation) == project(pq, aggregation) \o aggregation

\* query ? this.createFilters(query, append, appendPostConditions) : null
FiltersCondition(query, app, appPost) ==
    IF Truthy(query) THEN createFilters(query, app, appPost) ELSE Ok(Null)

\* searchQuery ? this.createQuickFilter(searchQuery, append, appendPostConditions) : null
QuickFilterCondition(searchQuery, app, appPost) ==
    IF Truthy(searchQuery) THEN createQuickFilter(searchQuery, app, appPost) ELSE Ok(Null)

\* The body of createAggregation from the two assemblers' outcomes: the
\* filters are compiled first, so their exception wins.
AggregationOf(pq, lkp, app, appPost, ignoreSort, query, searchQuery, filtersCondition, quickFilterCondition) ==
    IF filtersCondition.err # "none" THEN filtersCondition
    ELSE IF quickFilterCondition.err # "none" THEN quickFilterCondition
    ELSE Ok(Arr(Assemble(pq,
            Aggregation(pq, lkp,
                MergedConditions(filtersCondition.val, quickFilterCondition.val,
                                 query, searchQuery, app, "preConditions"),
                MergedConditions(filtersCondition.val, quickFilterCondition.val,
                                 query, searchQuery, appPost, "postConditions"),
                ignoreSort))))

\* createAggregation
createAggregation(pq, lkp, app, appPost, ignoreSort) ==
    AggregationOf(pq, lkp, app, appPost, ignoreSort,
                  Get(pq, <<"query">>), Get(pq, <<"searchQuery">>),
                  FiltersCondition(Get(pq, <<"query">>), app, appPost),
                  QuickFilterCondition(Get(pq, <<"searchQuery">>), app, appPost))


-----------------------------------------------------------------------------
(* Execution wrapper.  The executor (model.aggregate, aggregatePaginate)   *)
(* is the caller's: it answers with any number of rows up to MaxRows.      *)

Call(fn, pipeline, options) == [fn |-> fn, pipeline |-> pipeline, options |-> options]
AllowDiskUse == Obj(<<KV(<<"allowDiskUse">>, Bool(TRUE))>>)
Rows(n) == Arr([i \in 1..n |-> Obj(<<KV(<<"_id">>, Num(<<ToString(i)>>))>>)])

\* { ...(offset && { offset }), ...(page && { page }), limit }
PaginationOptions(pq) ==
    LET offset == Get(pq, <<"offset">>)
        page == Get(pq, <<"page">>)
        withOffset == IF Truthy(offset) THEN Put(EmptyObj, <<"offset">>, offset)
                      ELSE EmptyObj
        withPage == IF Truthy(page) THEN Put(withOffset, <<"page">>, page)
                    ELSE withOffset
    IN  Put(withPage, <<"limit">>, Get(pq, <<"limit">>))

\* rawAggregate
rawAggregateCalls(aggregations) == <<Call("aggregate", aggregations, AllowDiskUse)>>
rawAggregateResult(n) == Rows(n)

\* count
countCalls(aggregations) == <<Call("aggregate", aggregations, Undefined)>>
countResult(n) == Obj(<<KV(<<"searchCount">>, Num(<<ToString(n)>>))>>)

\* paginate: the envelope is the executor's, built from the rows and the options.
paginateCalls(aggregations, options) ==
    <<Call("aggregate", aggregations, AllowDiskUse),
      Call("aggregatePaginate", aggregations, options)>>
paginateResult(n, options) == Put(options, <<"docs">>, Rows(n))

\* The executor path with the two flags tested in the other order.
SearchPathCountFirst(ignore, count) ==
    IF count THEN "count" ELSE IF ignore THEN "rawAggregate" ELSE "paginate"

\* The executor path search takes once the pipeline is compiled.
SearchPath(ignore, count) ==
    IF ignore THEN "rawAggregate" ELSE IF count THEN "count" ELSE "paginate"

-----------------------------------------------------------------------------
(* Inputs.                                                                 *)

Seqs(S, n) == UNION {[1..m -> S] : m \in 0..n}

Hex24 == [i \in 1..24 |-> IF i % 2 = 0 THEN "a" ELSE "5"]
Hex12 == [i \in 1..12 |-> IF i % 2 = 0 THEN "b" ELSE "7"]
Word == <<"x", "y", "z">>
\* Strings of identifier length holding one character that is not hexadecimal.
Mixed24 == [i \in 1..24 |-> IF i = 24 THEN "g" ELSE "5"]
Mixed12 == [i \in 1..12 |-> IF i = 12 THEN "g" ELSE "7"]

\* A PropertyCondition; a key whose value is undefined is left out.
Entry(k, v) == IF v = Undefined THEN <<>> ELSE <<KV(<<k>>, v)>>
MkCond(value, matchMode, required, property) ==
    Obj(Entry("value", value) \o Entry("matchMode", matchMode)
        \o Entry("required", required) \o Entry("property", property))

FieldLocal == <<"a">>
FieldOther == <<"b">>
FieldJoined == <<"j", ".", "k">>
FieldNested == <<"m", ".", "n">>

\* createPropertyFilterRow's inputs.
RowNames == {<<"f">>, FieldJoined}
RowScalars == {Str(Word), Str(<<>>), Str(Hex24), Str(Hex12), Str(Mixed24),
               Str(Mixed12), Bool(TRUE), Bool(FALSE), Undefined, Null}
RowElements == {Str(Word), Str(Hex24), Str(Hex12), Str(Mixed24), Str(Mixed12),
                Bool(TRUE), Bool(FALSE)}
RowValues == RowScalars \cup {Arr(l) : l \in Seqs(RowElements, MaxValues)}
RowModes == {Str(<<m>>) : m \in MatchModes} \cup {Undefined, Str(<<"like">>)}
RowConditions ==
    {MkCond(v, m, Undefined, p) :
        v \in RowValues, m \in RowModes, p \in {Undefined, Str(<<"p">>)}}

\* Conditions of the structured filters: well-formed ones ...
CondEquals == MkCond(Str(Word), Str(<<"equals">>), Undefined, Undefined)
CondOptional == MkCond(Str(<<"q">>), Str(<<"notEquals">>), Bool(FALSE), Undefined)
CondRequired == MkCond(Str(Word), Str(<<"contains">>), Bool(TRUE), Undefined)
CondRequiredGt == MkCond(Str(<<"5">>), Str(<<"greaterThan">>), Bool(TRUE), Undefined)
CondArrayObject ==
    MkCond(Arr(<<Str(Word)>>), Str(<<"arrayContainsObject">>), Undefined, Str(<<"p">>))
CondBetween ==
    MkCond(Arr(<<Str(<<"1">>), Str(<<"9">>)>>), Str(<<"between">>), Undefined, Undefined)
\* ... and malformed ones.
CondNoValue == MkCond(Undefined, Str(<<"equals">>), Undefined, Undefined)
CondNoMode == MkCond(Str(Word), Undefined, Undefined, Undefined)
CondUnknownMode == MkCond(Str(Word), Str(<<"like">>), Bool(TRUE), Undefined)
CondBetweenScalar == MkCond(Str(Word), Str(<<"between">>), Undefined, Undefined)

ValidConds == {CondEquals, CondOptional, CondRequired, CondRequiredGt,
               CondArrayObject, CondBetween}
MalformedConds == {CondNoValue, CondNoMode, CondUnknownMode, CondBetweenScalar}
DeepConds == {CondEquals, CondOptional, CondRequired, CondRequiredGt,
              CondArrayObject, CondNoValue, CondUnknownMode}

\* Values under a field that are not a list.
NonLists == {CondEquals, Str(Word), Str(<<>>), Num(<<"5">>), Null}

Query1(k, v) == Obj(<<KV(k, v)>>)
Query2(k1, v1, k2, v2) == Obj(<<KV(k1, v1), KV(k2, v2)>>)

DeepLists == {Arr(l) : l \in Seqs(DeepConds, MaxConds)}
ShortLists == {Arr(<<c>>) : c \in ValidConds \cup MalformedConds}
WideValues == {Arr(<<CondEquals>>), Arr(<<CondRequired>>), Arr(<<CondArrayObject>>),
               Arr(<<CondNoValue>>), Arr(<<CondBetweenScalar>>), CondEquals}

CompileQueries ==
    {Undefined, Null, EmptyObj}
    \cup {Query1(k, v) : k \in {FieldLocal, FieldJoined},
                         v \in DeepLists \cup ShortLists \cup NonLists}
    \cup {Query2(k[1], v1, k[2], v2) :
              k \in {<<FieldLocal, FieldJoined>>, <<FieldJoined, FieldLocal>>,
                     <<FieldLocal, FieldOther>>},
              v1 \in WideValues, v2 \in WideValues}

QuickQuery(value, fields) == Obj(Entry("value", value) \o Entry("fields", fields))
QuickFieldLists ==
    {Arr(l) : l \in Seqs({Str(FieldLocal), Str(FieldOther), Str(FieldJoined)},
                         MaxQuickFields)}
QuickPre == QuickQuery(Str(<<"v">>), Arr(<<Str(FieldOther)>>))
QuickPost == QuickQuery(Str(<<"v">>), Arr(<<Str(FieldOther), Str(FieldJoined)>>))
CompileQuickQueries ==
    {Undefined, Null}
    \cup {QuickQuery(v, f) : v \in {Str(<<"v">>), Str(<<>>), Undefined},
                             f \in QuickFieldLists \cup {Undefined, Str(FieldLocal)}}

ExtraPre == Obj(<<KV(<<"tenant">>, Str(<<"t">>))>>)
ExtraPost == Obj(<<KV(<<"j", ".", "active">>, Bool(TRUE))>>)

\* A PaginatedQuery; keys whose value is undefined are left out.
MkPaginatedQuery(query, searchQuery, select, sortKey, sortOrder, page, offset) ==
    Obj(Entry("query", query) \o Entry("searchQuery", searchQuery)
        \o Entry("select", select) \o Entry("sortKey", sortKey)
        \o Entry("sortOrder", sortOrder) \o Entry("page", page)
        \o Entry("offset", offset) \o Entry("limit", Num(<<"10">>)))

\* Lookup stages as createLookup emits them.
LookupStage(name) ==
    Stage("$lookup", Obj(<<KV(<<"from">>, Str(<<"coll">>)),
                           KV(<<"localField">>, Str(name)),
                           KV(<<"foreignField">>, Str(<<"_id">>)),
                           KV(<<"as">>, Str(name))>>))
SetStage(name) ==
    Stage("$set", Obj(<<KV(name, Obj(<<KV(<<"$arrayElemAt">>,
                                       Arr(<<Str(<<"$">> \o name), Num(<<"0">>)>>))>>))>>))
LookupStages == {LookupStage(<<"j">>), SetStage(<<"j">>)}
Lookups == {Null} \cup {Arr(l) : l \in Seqs(LookupStages, MaxLookups)}

SelectEntry(field, external) ==
    Obj(<<KV(<<"field">>, Str(field))>> \o Entry("externalDocument", external))
SelectEntries == {SelectEntry(FieldLocal, Undefined),
                  SelectEntry(FieldJoined, Bool(TRUE)),
                  SelectEntry(FieldNested, Bool(FALSE))}
Selects == {Undefined} \cup {Arr(l) : l \in Seqs(SelectEntries, MaxSelect)}

PipelineQueries ==
    {Undefined,
     Query1(FieldLocal, Arr(<<CondEquals>>)),
     Query1(FieldJoined, Arr(<<CondEquals>>)),
     Query1(FieldNested, Arr(<<CondRequired>>)),
     Query2(FieldLocal, Arr(<<CondArrayObject>>), FieldJoined, Arr(<<CondEquals>>))}
PipelineQuickQueries == {Undefined, QuickPre, QuickPost}
Sorts == {<<Undefined, Undefined>>, <<Undefined, Str(<<"desc">>)>>,
          <<Str(FieldLocal), Undefined>>, <<Str(FieldLocal), Str(<<"asc">>)>>,
          <<Str(FieldLocal), Str(<<"desc">>)>>}
Pagings == {<<Undefined, Undefined>>, <<Num(<<"2">>), Undefined>>,
            <<Num(<<"0">>), Num(<<"20">>)>>}

\* lookupWithNestedPipeline's inputs: a join j of collection coll, alone or
\* under a parent p, with or without a nested join n.
FieldDeep == <<"j", ".", "n", ".", "x">>
FieldLoose == <<"j", ".", "n", "x">>
FieldPathed == <<"p", ".", "j", ".", "k">>
JoinFrom == Str(<<"coll">>)
JoinForeignField == Str(<<"_id">>)
JoinSelectEntries == {SelectEntry(FieldLocal, Undefined),
                      SelectEntry(FieldJoined, Bool(TRUE)),
                      SelectEntry(FieldJoined, Bool(FALSE)),
                      SelectEntry(FieldDeep, Bool(TRUE)),
                      SelectEntry(FieldLoose, Bool(TRUE)),
                      SelectEntry(FieldPathed, Bool(TRUE))}
JoinSelects == {Undefined} \cup {Arr(l) : l \in Seqs(JoinSelectEntries, MaxSelect)}
JoinQueries ==
    {Undefined,
     Query1(FieldLocal, Arr(<<CondEquals>>)),
     Query1(FieldJoined, Arr(<<CondEquals>>)),
     Query1(FieldDeep, Arr(<<CondEquals>>)),
     Query2(FieldJoined, Arr(<<CondEquals>>), FieldPathed, Arr(<<CondRequired>>))}
NestedPipelines == {Null, Arr(<<>>), Arr(<<LookupStage(<<"n">>), SetStage(<<"n">>)>>)}
FieldPaths == {Null, Str(<<"p", ".", "j">>)}

-----------------------------------------------------------------------------
(* Initial states.                                                         *)

NoRequest ==
    /\ paginatedQuery = MkPaginatedQuery(Undefined, Undefined, Undefined, Undefined,
                                         Undefined, Undefined, Undefined)
    /\ lookup = Null
    /\ append = Null
    /\ appendPostConditions = Null
    /\ countOnly = FALSE
    /\ ignorePagination = FALSE

NoRow ==
    /\ propertyName = <<"f">>
    /\ condition = CondEquals

NoJoin ==
    /\ as = <<"j">>
    /\ nestedPipeline = Null
    /\ fieldPath = Null
    /\ isArray = FALSE

NotCalled ==
    /\ pc = "start"
    /\ ret = NoResult
    /\ executorCalls = <<>>

\* One condition of one field.
InitRow ==
    /\ NoRequest
    /\ propertyName \in RowNames
    /\ condition \in RowConditions
    /\ NoJoin
    /\ NotCalled

\* Structured filters, quick search and extra conditions, no selection.
InitCompile ==
    /\ \E q \in CompileQueries, sq \in CompileQuickQueries :
          /\ \/ sq \in {Undefined, QuickPre, QuickPost}
             \/ q \in {Undefined, Query1(FieldLocal, Arr(<<CondEquals>>)),
                       Query1(FieldJoined, Arr(<<CondEquals>>))}
          /\ paginatedQuery = MkPaginatedQuery(q, sq, Undefined, Undefined,
                                               Undefined, Undefined, Undefined)
    /\ lookup = Null
    /\ append \in {Null, ExtraPre}
    /\ appendPostConditions \in {Null, ExtraPost}
    /\ countOnly = FALSE
    /\ ignorePagination = FALSE
    /\ NoRow
    /\ NoJoin
    /\ NotCalled

\* Whole requests: selection and lookups, or sorting, paging and mode flags.
Init ==
    /\ \/ /\ \E q \in PipelineQueries, sq \in PipelineQuickQueries, sel \in Selects :
                paginatedQuery = MkPaginatedQuery(q, sq, sel, Undefined, Undefined,
                                                  Undefined, Undefined)
          /\ lookup \in Lookups
          /\ append = Null
          /\ appendPostConditions = Null
          /\ countOnly = FALSE
          /\ ignorePagination = FALSE
       \/ /\ \E q \in {Undefined, Query1(FieldJoined, Arr(<<CondEquals>>))},
               sq \in {Undefined, QuickPre},
               sel \in {Undefined, Arr(<<SelectEntry(FieldLocal, Undefined)>>)},
               srt \in Sorts, pg \in Pagings :
                paginatedQuery = MkPaginatedQuery(q, sq, sel, srt[1], srt[2],
                                                  pg[1], pg[2])
          /\ lookup \in {Null, Arr(<<LookupStage(<<"j">>), SetStage(<<"j">>)>>)}
          /\ append \in {Null, ExtraPre}
          /\ appendPostConditions \in {Null, ExtraPost}
          /\ countOnly \in BOOLEAN
          /\ ignorePagination \in BOOLEAN
    /\ NoRow
    /\ NoJoin
    /\ NotCalled

\* One join to plan for a request.
InitLookup ==
    /\ \/ paginatedQuery = Null
       \/ \E q \in JoinQueries, sel \in JoinSelects :
             paginatedQuery = MkPaginatedQuery(q, Undefined, sel, Undefined,
                                               Undefined, Undefined, Undefined)
    /\ lookup = Null
    /\ append = Null
    /\ appendPostConditions = Null
    /\ countOnly = FALSE
    /\ ignorePagination = FALSE
    /\ NoRow
    /\ as = <<"j">>
    /\ nestedPipeline \in NestedPipelines
    /\ fieldPath \in FieldPaths
    /\ isArray \in BOOLEAN
    /\ NotCalled

-----------------------------------------------------------------------------
(* Operations.  The service keeps no state: an operation reads the request *)
(* and leaves its outcome in ret.                                          *)

Request == <<paginatedQuery, lookup, append, appendPostConditions, countOnly,
             ignorePagination, propertyName, condition, as, nestedPipeline,
             fieldPath, isArray>>

Returns(op, outcome, calls) ==
    /\ pc' = op
    /\ ret' = outcome
    /\ executorCalls' = calls
    /\ UNCHANGED Request

CreatePropertyFilterRow ==
    Returns("createPropertyFilterRow",
            createPropertyFilterRow(propertyName, condition), <<>>)

CreateFilters ==
    Returns("createFilters",
            createFilters(Get(paginatedQuery, <<"query">>), append,
                          appendPostConditions), <<>>)

CreateQuickFilter ==
    Returns("createQuickFilter",
            createQuickFilter(Get(paginatedQuery, <<"searchQuery">>), append,
                              appendPostConditions), <<>>)

CreateAggregation ==
    Returns("createAggregation",
            createAggregation(paginatedQuery, lookup, append, appendPostConditions,
                              ignorePagination), <<>>)

\* SearchService.project on the stages the caller has built so far.
Project ==
    Returns("project",
            Ok(Arr(project(paginatedQuery, IF Truthy(lookup) THEN lookup.l ELSE <<>>))),
            <<>>)

\* search, from the outcome of createAggregation: one executor path, or none
\* when the compilation threw.
SearchWith(aggregations, options, path) ==
    IF aggregations.err # "none" THEN Returns("search", aggregations, <<>>)
    ELSE \E n \in 0..MaxRows :
           CASE path = "rawAggregate" ->
                  Returns("search", Ok(rawAggregateResult(n)),
                          rawAggregateCalls(aggregations.val))
             [] path = "count" ->
                  Returns("search", Ok(countResult(n)),
                          countCalls(aggregations.val))
             [] OTHER ->
                  Returns("search", Ok(paginateResult(n, options)),
                          paginateCalls(aggregations.val, options))

Search ==
    SearchWith(createAggregation(paginatedQuery, lookup, append,
                                 appendPostConditions, ignorePagination),
               PaginationOptions(paginatedQuery),
               SearchPath(ignorePagination, countOnly))

\* SearchService.lookupWithNestedPipeline
LookupWithNestedPipeline ==
    Returns("lookupWithNestedPipeline",
            Ok(Arr(lookupWithNestedPipeline(JoinFrom, Str(as), JoinForeignField, as,
                                            nestedPipeline, paginatedQuery, fieldPath,
                                            isArray))),
            <<>>)

\* SearchService.lookup: no nested pipeline.
Lookup ==
    Returns("lookup",
            Ok(Arr(lookupWithNestedPipeline(JoinFrom, Str(as), JoinForeignField, as,
                                            Null, paginatedQuery, fieldPath, isArray))),
            <<>>)

NextLookup == LookupWithNestedPipeline \/ Lookup
SpecLookup == InitLookup /\ [][NextLookup]_vars

NextRow == CreatePropertyFilterRow
SpecRow == InitRow /\ [][NextRow]_vars

NextCompile == CreateFilters \/ CreateQuickFilter \/ CreateAggregation \/ Search
SpecCompile == InitCompile /\ [][NextCompile]_vars

Next == CreateAggregation \/ Project \/ Search
Spec == Init /\ [][Next]_vars


-----------------------------------------------------------------------------
(* Vocabulary of the properties.                                           *)

Succeeded(op) == pc = op /\ ret.err = "none"
Stages == ret.val.l
TheQuery == Get(paginatedQuery, <<"query">>)
TheSearchQuery == Get(paginatedQuery, <<"searchQuery">>)
TheSelect == Get(paginatedQuery, <<"select">>)
LookupList == IF lookup.kind = "array" THEN lookup.l ELSE <<>>
IsStage(st, name) == Keys(st) = <<(<<name>>)>>
Dotted(path) == \E i \in DOMAIN path : path[i] = "."
FirstSegment(path) ==
    IF Dotted(path)
    THEN SubSeq(path, 1, (CHOOSE i \in DOMAIN path :
                            path[i] = "." /\ \A j \in 1..(i - 1) : path[j] # ".") - 1)
    ELSE path
\* The conjuncts of a condition set: none for false or {}, the members of
\* its $and otherwise.
Conjuncts(c) == IF c.kind = "object" /\ Has(c, <<"$and">>)
                THEN Get(c, <<"$and">>).l ELSE <<>>
\* A field of a Query belongs after the joins.
BelongsToPost(k, conds) ==
    \/ Dotted(k)
    \/ \E i \in DOMAIN conds.l :
          Get(conds.l[i], <<"matchMode">>) = Str(<<"arrayContainsObject">>)
\* The entries of the query that belong to one side, in order.
FieldsOfSide(query, post) ==
    SelectSeq(query.o, LAMBDA e : BelongsToPost(e.k, e.v) = post)
ExtraList(extra) == IF extra = Null THEN <<>> ELSE <<extra>>

-----------------------------------------------------------------------------
(* C1.  Stage order of createAggregation.                                  *)

SortWanted == Truthy(Get(paginatedQuery, <<"sortKey">>)) /\ ~ignorePagination
ExpectedSort ==
    IF SortWanted
    THEN <<Obj(<<KV(<<"$sort">>,
                    Obj(<<KV(Get(paginatedQuery, <<"sortKey">>).s,
                             IF Get(paginatedQuery, <<"sortOrder">>) = Str(<<"desc">>)
                             THEN MinusOne ELSE One)>>))>>)>>
    ELSE <<>>
ProjectionCount == IF TheSelect = Undefined THEN 0 ELSE 1

\* C1: a successful createAggregation returns, in this order, the projection
\* planner's output (zero or one $project stage), one $match, the caller's
\* lookup stages unchanged and in the caller's order, one $match, and a
\* single $sort {sortKey: -1 for "desc", else 1} exactly when sortKey is set
\* and sorting is not suppressed; nothing else.
C1_StageOrder ==
    Succeeded("createAggregation") =>
        LET n == ProjectionCount
            m == Len(LookupList)
        IN  /\ Len(Stages) = n + 1 + m + 1 + Len(ExpectedSort)
            /\ n = 1 => IsStage(Stages[1], "$project")
            /\ SubSeq(Stages, 1, n)
                 = project(paginatedQuery, SubSeq(Stages, n + 1, Len(Stages)))
            /\ IsStage(Stages[n + 1], "$match")
            /\ SubSeq(Stages, n + 2, n + 1 + m) = LookupList
            /\ IsStage(Stages[n + m + 2], "$match")
            /\ SubSeq(Stages, n + m + 3, Len(Stages)) = ExpectedSort

C1_Witness ==
    /\ Succeeded("createAggregation")
    /\ TheSelect # Undefined
    /\ Len(LookupList) = 2 /\ LookupList[1] # LookupList[2]
    /\ SortWanted
    /\ Get(paginatedQuery, <<"sortOrder">>) = Str(<<"desc">>)
    /\ Len(Stages) = 6

-----------------------------------------------------------------------------
(* C2.  Per-field routing of createFilters.                                *)

FragmentsOfSide(query, post) ==
    LET es == FieldsOfSide(query, post)
    IN  [i \in DOMAIN es |-> createPropertyFilter(es[i].k, es[i].v).val]

\* C2: a successful createFilters puts the fragment of every field whose
\* path has a dot or that has an arrayContainsObject condition in
\* postConditions, and of every other field in preConditions: each side
\* holds exactly the fragments of its fields, in order, then its extra
\* condition, so no fragment is on both sides or on neither.
C2_FieldRouting ==
    Succeeded("createFilters") =>
        /\ Conjuncts(Get(ret.val, <<"preConditions">>))
             = FragmentsOfSide(TheQuery, FALSE) \o ExtraList(append)
        /\ Conjuncts(Get(ret.val, <<"postConditions">>))
             = FragmentsOfSide(TheQuery, TRUE) \o ExtraList(appendPostConditions)

C2_Witness ==
    /\ Succeeded("createFilters")
    /\ TheQuery = Query2(FieldLocal, Arr(<<CondEquals>>), FieldJoined, Arr(<<CondEquals>>))
    /\ Len(Conjuncts(Get(ret.val, <<"postConditions">>))) >= 1
    /\ Conjuncts(Get(ret.val, <<"postConditions">>))[1]
         = createPropertyFilter(FieldJoined, Arr(<<CondEquals>>)).val
    /\ Len(Conjuncts(Get(ret.val, <<"preConditions">>))) >= 1

-----------------------------------------------------------------------------
(* C3.  All-or-nothing routing of createQuickFilter.                       *)

QuickFields == Get(TheSearchQuery, <<"fields">>).l
QuickRows ==
    [i \in DOMAIN QuickFields |->
        Obj(<<KV(QuickFields[i].s,
                 Obj(<<KV(<<"$regex">>, Get(TheSearchQuery, <<"value">>)),
                       KV(<<"$options">>, Str(<<"i">>))>>))>>)]
\* The OR groups among the conjuncts of a condition set.
OrGroups(c) == SelectSeq(Conjuncts(c), LAMBDA f : Has(f, <<"$or">>))
\* Some regex fragment of a listed field occurs in the condition set.
HoldsFieldFragment(c) ==
    \E i \in DOMAIN Conjuncts(c) :
        LET f == Conjuncts(c)[i]
        IN  \/ f \in Range(QuickRows)
            \/ Has(f, <<"$or">>) /\ \E r \in Range(QuickRows) : r \in Range(Get(f, <<"$or">>).l)
AnyQuickFieldDotted == \E i \in DOMAIN QuickFields : Dotted(QuickFields[i].s)

\* C3: a successful createQuickFilter with at least one dotted field puts
\* the regex fragments of all listed fields, in order, in one OR group of
\* postConditions and no field fragment in preConditions; with no dotted
\* field it puts them all in one OR group of preConditions and none in
\* postConditions.
C3_QuickRouting ==
    (Succeeded("createQuickFilter") /\ QuickFields # <<>>) =>
        LET pre == Get(ret.val, <<"preConditions">>)
            post == Get(ret.val, <<"postConditions">>)
        IN  IF AnyQuickFieldDotted
            THEN /\ OrGroups(post) = <<Obj(<<KV(<<"$or">>, Arr(QuickRows))>>)>>
                 /\ ~HoldsFieldFragment(pre)
            ELSE /\ OrGroups(pre) = <<Obj(<<KV(<<"$or">>, Arr(QuickRows))>>)>>
                 /\ ~HoldsFieldFragment(post)

C3_Witness ==
    /\ Succeeded("createQuickFilter")
    /\ QuickFields = <<Str(FieldLocal), Str(FieldJoined)>>
    /\ Len(Get(OrGroups(Get(ret.val, <<"postConditions">>))[1], <<"$or">>).l) = 2
    /\ append # Null

-----------------------------------------------------------------------------
(* C4.  No constraint is lost in the merge.                                *)

PreMatch == Get(Stages[1], <<"$match">>)
PostMatch == Get(Stages[2], <<"$match">>)
\* A $match body requires a fragment: it is the fragment, or the fragment
\* is one of the members of its top-level $and.
Requires(m, f) == m = f \/ f \in Range(Conjuncts(m))
QuickGroupExpected == Obj(<<KV(<<"$or">>, Arr(QuickRows))>>)
ExtraOrEmpty(extra) == IF extra = Null THEN EmptyObj ELSE extra

\* C4: in a successful createAggregation (no selection, no lookups) the
\* first $match requires every pre-routed field fragment, the quick-search
\* OR group when it is pre-routed and the extra pre-condition when given;
\* the second $match requires the same of the post side; neither extra
\* condition is required by the other $match; and with neither query nor
\* searchQuery the two $match bodies are the extra conditions alone.
C4_NoConstraintLost ==
    (Succeeded("createAggregation") /\ Len(Stages) = 2) =>
        /\ \A f \in Range(FragmentsOfSide(TheQuery, FALSE)) :
              Truthy(TheQuery) => Requires(PreMatch, f)
        /\ \A f \in Range(FragmentsOfSide(TheQuery, TRUE)) :
              Truthy(TheQuery) => Requires(PostMatch, f)
        /\ (Truthy(TheSearchQuery) /\ QuickFields # <<>>) =>
              Requires(IF AnyQuickFieldDotted THEN PostMatch ELSE PreMatch,
                       QuickGroupExpected)
        /\ append # Null =>
              Requires(PreMatch, append) /\ ~Requires(PostMatch, append)
        /\ appendPostConditions # Null =>
              /\ Requires(PostMatch, appendPostConditions)
              /\ ~Requires(PreMatch, appendPostConditions)
        /\ (~Truthy(TheQuery) /\ ~Truthy(TheSearchQuery)) =>
              /\ PreMatch = ExtraOrEmpty(append)
              /\ PostMatch = ExtraOrEmpty(appendPostConditions)

C4_Witness ==
    /\ Succeeded("createAggregation")
    /\ TheQuery = Query1(FieldLocal, Arr(<<CondEquals>>))
    /\ TheSearchQuery = QuickPre
    /\ append = ExtraPre
    /\ appendPostConditions = ExtraPost
    /\ Requires(PreMatch, QuickGroupExpected)
    /\ Requires(PreMatch, createPropertyFilter(FieldLocal, Arr(<<CondEquals>>)).val)

-----------------------------------------------------------------------------
(* C5.  AND group and OR group of one field.                               *)

RequiredOf(conds) == SelectSeq(conds, LAMBDA c : Get(c, <<"required">>) = Bool(TRUE))
RemainingOf(conds) == SelectSeq(conds, LAMBDA c : Get(c, <<"required">>) # Bool(TRUE))
ExpectedGroup(k, conds, op) ==
    IF conds = <<>> THEN EmptyObj
    ELSE Obj(<<KV(<<op>>, Arr([i \in DOMAIN conds |->
                                 createPropertyFilterRow(k, conds[i]).val]))>>)
\* The fragment createFilters returned for the query's entry at index i:
\* the one at the entry's rank among the entries of its side.
ReturnedFragment(i) ==
    LET post == BelongsToPost(TheQuery.o[i].k, TheQuery.o[i].v)
        rank == Cardinality({j \in 1..i :
                    BelongsToPost(TheQuery.o[j].k, TheQuery.o[j].v) = post})
    IN  Conjuncts(Get(ret.val, IF post THEN <<"postConditions">>
                               ELSE <<"preConditions">>))[rank]

\* C5: for every field of a successfully compiled Query with a non-empty
\* condition list, the field's fragment is the AND of two groups: the AND
\* of the fragments of the conditions with required = true, in list order,
\* and the OR of the fragments of all the other conditions, in list order;
\* a group with no condition is the empty fragment; every condition is in
\* exactly one group.
C5_AndOrGroups ==
    Succeeded("createFilters") =>
        \A i \in DOMAIN TheQuery.o :
            LET k == TheQuery.o[i].k
                conds == TheQuery.o[i].v.l
            IN  conds # <<>> =>
                  /\ ReturnedFragment(i)
                       = Obj(<<KV(<<"$and">>,
                                  Arr(<<ExpectedGroup(k, RequiredOf(conds), "$and"),
                                        ExpectedGroup(k, RemainingOf(conds), "$or")>>))>>)
                  /\ Len(RequiredOf(conds)) + Len(RemainingOf(conds)) = Len(conds)

C5_Witness ==
    /\ Succeeded("createFilters")
    /\ TheQuery = Query1(FieldLocal, Arr(<<CondEquals, CondRequired>>))
    /\ Len(Get(Get(ReturnedFragment(1), <<"$and">>).l[1], <<"$and">>).l) = 1
    /\ Len(Get(Get(ReturnedFragment(1), <<"$and">>).l[2], <<"$or">>).l) = 1

-----------------------------------------------------------------------------
(* C6.  Compilation fails atomically.                                      *)

MalformedCondition(c) ==
    \/ ~Truthy(Get(c, <<"value">>))
    \/ ~Truthy(Get(c, <<"matchMode">>))
    \/ Get(c, <<"matchMode">>) \notin {Str(<<m>>) : m \in MatchModes}
    \/ Get(c, <<"matchMode">>) = Str(<<"between">>) /\ ~IsArray(Get(c, <<"value">>))
HasMalformedCondition(e) ==
    \E i \in DOMAIN e.v.l : MalformedCondition(e.v.l[i])
\* Every field of the query holds a list of condition objects.
FieldsAreLists ==
    \A i \in DOMAIN TheQuery.o :
        /\ IsArray(TheQuery.o[i].v)
        /\ \A j \in DOMAIN TheQuery.o[i].v.l : TheQuery.o[i].v.l[j].kind = "object"
MalformedInQuery ==
    Truthy(TheQuery) /\ \E i \in DOMAIN TheQuery.o : HasMalformedCondition(TheQuery.o[i])
MalformedQuick ==
    /\ Truthy(TheSearchQuery)
    /\ \/ ~Truthy(Get(TheSearchQuery, <<"value">>))
       \/ ~Truthy(Get(TheSearchQuery, <<"fields">>))
       \/ ~IsArray(Get(TheSearchQuery, <<"fields">>))
\* The message is "Property <field>: ..." for that field.
NamesField(msg, k) == Len(msg) > Len(k) /\ SubSeq(msg, 2, Len(k) + 1) = k
RejectedWhole ==
    /\ ret.err = "BadRequestException"
    /\ ret.val = Undefined
    /\ executorCalls = <<>>
NamesOffendingField ==
    MalformedInQuery =>
        \E i \in DOMAIN TheQuery.o :
            HasMalformedCondition(TheQuery.o[i]) /\ NamesField(ret.msg, TheQuery.o[i].k)

\* C6: when the request holds a malformed part among otherwise valid
\* fields and conditions (a condition without value or matchMode, with an
\* unknown matchMode, or between with a non-list value; a quick search
\* without value, without fields or with fields that are no list),
\* createAggregation and search end with a BadRequestException that names
\* a field with a malformed condition where there is one, return nothing,
\* and search has called no executor primitive; createFilters rejects a
\* null Query and createQuickFilter a null QuickQuery the same way.
C6_AtomicFailure ==
    /\ (pc \in {"createAggregation", "search"} /\ FieldsAreLists
        /\ (MalformedInQuery \/ MalformedQuick))
          => RejectedWhole /\ NamesOffendingField
    /\ (pc = "createFilters" /\ FieldsAreLists
        /\ (~Truthy(TheQuery) \/ MalformedInQuery))
          => RejectedWhole /\ NamesOffendingField
    /\ (pc = "createQuickFilter" /\ (~Truthy(TheSearchQuery) \/ MalformedQuick))
          => RejectedWhole

C6_Witness ==
    /\ pc = "search"
    /\ TheQuery = Query2(FieldLocal, Arr(<<CondEquals>>), FieldJoined, Arr(<<CondNoValue>>))
    /\ TheSearchQuery = QuickPre
    /\ ret.err = "BadRequestException"
    /\ NamesField(ret.msg, FieldJoined)
    /\ executorCalls = <<>>

-----------------------------------------------------------------------------
(* C7.  A field whose value is not a list.                                 *)

\* C7: createFilters ends with a BadRequestException whenever some field of
\* the Query holds a value that is not a list, whether the field path has a
\* dot or not.
C7_NonListRejected ==
    (pc = "createFilters" /\ Truthy(TheQuery)
     /\ \E i \in DOMAIN TheQuery.o : ~IsArray(TheQuery.o[i].v))
        => ret.err = "BadRequestException"

-----------------------------------------------------------------------------
(* C8.  Scalar value and one-element list.                                 *)

RowMode == Get(condition, <<"matchMode">>)
RowValue == Get(condition, <<"value">>)
\* The scalar values the claim is about, per match mode.
ClaimedScalars(mode) ==
    {Str(Word), Str(Hex24), Str(Hex12)}
    \cup (IF mode = Str(<<"exists">>) THEN {Bool(TRUE), Bool(FALSE)} ELSE {})
ListFormResult ==
    createPropertyFilterRow(propertyName, Put(condition, <<"value">>, Arr(<<RowValue>>)))

\* C8: for every matchMode other than between and every scalar value v
\* (strings, identifier-shaped strings, and true and false for exists),
\* createPropertyFilterRow succeeds on v and on [v], and the list form is
\* the one-element OR of the scalar form's fragment (the same one-element
\* $in for arrayContains and arrayContainsObject).
C8_ScalarListEquivalent ==
    (pc = "createPropertyFilterRow"
     /\ RowMode \in {Str(<<m>>) : m \in MatchModes \ {"between"}}
     /\ RowValue \in ClaimedScalars(RowMode))
        => /\ ret.err = "none"
           /\ ListFormResult.err = "none"
           /\ ListFormResult.val
                = IF RowMode \in {Str(<<"arrayContains">>), Str(<<"arrayContainsObject">>)}
                  THEN ret.val
                  ELSE Obj(<<KV(<<"$or">>, Arr(<<ret.val>>))>>)

-----------------------------------------------------------------------------
(* C9.  between.                                                           *)

RangeFragment(k, lower, upper) ==
    Obj(<<KV(k, Obj(<<KV(<<"$gte">>, lower), KV(<<"$lte">>, upper)>>))>>)

\* C9: between with value [a, b] compiles to {field: {$gte: a, $lte: b}};
\* between with a value that is not a list ends with a
\* BadRequestException; and every range fragment between emits has both
\* bounds defined, its value being a list of exactly two elements.
C9_BetweenRange ==
    (pc = "createPropertyFilterRow" /\ RowMode = Str(<<"between">>) /\ Truthy(RowValue))
        => /\ (IsArray(RowValue) /\ Len(RowValue.l) = 2)
                => ret = Ok(RangeFragment(propertyName, RowValue.l[1], RowValue.l[2]))
           /\ ~IsArray(RowValue) => ret.err = "BadRequestException"
           /\ ret.err = "none" =>
                /\ Len(RowValue.l) = 2
                /\ Get(Get(ret.val, propertyName), <<"$gte">>) # Undefined
                /\ Get(Get(ret.val, propertyName), <<"$lte">>) # Undefined

-----------------------------------------------------------------------------
(* C10.  Key set of the top-level projection.                              *)

SelectList == TheSelect.l
LookupNames ==
    {Get(Get(LookupList[i], <<"$lookup">>), <<"as">>).s :
        i \in {j \in DOMAIN LookupList : Has(LookupList[j], <<"$lookup">>)}}
IsExternal(entry) == Get(entry, <<"externalDocument">>) = Bool(TRUE)
FilterFieldNames == IF Truthy(TheQuery) THEN Range(Keys(TheQuery)) ELSE {}
ExpectedProjectionKeys ==
    {Get(e, <<"field">>).s : e \in {x \in Range(SelectList) : ~IsExternal(x)}}
    \cup {FirstSegment(Get(e, <<"field">>).s) : e \in {x \in Range(SelectList) : IsExternal(x)}}
    \cup {IF Dotted(k) /\ FirstSegment(k) \in LookupNames THEN FirstSegment(k) ELSE k :
             k \in FilterFieldNames}
    \cup {<<"testCenter">>, <<"customer">>}

\* C10: project returns no stage when the PaginatedQuery has no select, and
\* otherwise exactly one $project stage whose keys are exactly the full
\* paths of the local select entries, the first segments of the external
\* ones, the filter fields of query (a dotted one whose first segment is the
\* `as` of a $lookup stage of the given pipeline replaced by that name),
\* testCenter and customer, every key once and with value 1.
C10_ProjectionKeys ==
    pc = "project" =>
        IF TheSelect = Undefined THEN Stages = <<>>
        ELSE /\ Len(Stages) = 1
             /\ IsStage(Stages[1], "$project")
             /\ LET p == Get(Stages[1], <<"$project">>)
                IN  /\ Range(Keys(p)) = ExpectedProjectionKeys
                    /\ Len(p.o) = Cardinality(ExpectedProjectionKeys)
                    /\ \A i \in DOMAIN p.o : p.o[i].v = One

C10_Witness ==
    /\ pc = "project"
    /\ SelectList = <<SelectEntry(FieldLocal, Undefined), SelectEntry(FieldJoined, Bool(TRUE))>>
    /\ TheQuery = Query1(FieldJoined, Arr(<<CondEquals>>))
    /\ <<"j">> \in LookupNames
    /\ Keys(Get(Stages[1], <<"$project">>))
         = <<(<<"a">>), (<<"j">>), (<<"testCenter">>), (<<"customer">>)>>

-----------------------------------------------------------------------------
(* C11.  The join planner.                                                 *)

JoinPlanned == pc \in {"lookupWithNestedPipeline", "lookup"}
\* lookup plans the join without a nested pipeline.
UsedNested == IF pc = "lookup" THEN Null ELSE nestedPipeline
NestedStages == IF UsedNested = Null THEN <<>> ELSE UsedNested.l
NestedNames ==
    {Get(Get(NestedStages[i], <<"$lookup">>), <<"as">>).s :
        i \in {j \in DOMAIN NestedStages : Has(NestedStages[j], <<"$lookup">>)}}
JoinPrefix == (IF fieldPath = Null THEN as ELSE fieldPath.s) \o <<".">>
UnderPrefix(path) ==
    Len(path) >= Len(JoinPrefix) /\ \A i \in DOMAIN JoinPrefix : path[i] = JoinPrefix[i]
Suffix(path) == [i \in 1..(Len(path) - Len(JoinPrefix)) |-> path[Len(JoinPrefix) + i]]
\* A suffix that begins with the name of a nested join stands for that join.
BeginsWith(str, n) == Len(str) >= Len(n) /\ \A i \in DOMAIN n : str[i] = n[i]
Substituted(sfx) ==
    IF \E n \in NestedNames : BeginsWith(sfx, n)
    THEN CHOOSE n \in NestedNames : BeginsWith(sfx, n)
    ELSE sfx
SelectGiven == TheSelect # Undefined
ExternalPaths ==
    {Get(e, <<"field">>).s : e \in {x \in Range(TheSelect.l) : IsExternal(x)}}
ExpectedSubFields ==
    {Substituted(Suffix(path)) :
        path \in {f \in ExternalPaths \cup FilterFieldNames : UnderPrefix(f)}}
JoinBuilt ==
    /\ Len(Stages) >= 1
    /\ IsStage(Stages[1], "$lookup")
    /\ Get(Get(Stages[1], <<"$lookup">>), <<"as">>) = Str(as)
    /\ \A i \in 2..Len(Stages) : ~IsStage(Stages[i], "$lookup")
InnerPipeline == Get(Get(Stages[1], <<"$lookup">>), <<"pipeline">>)
WithProjection ==
    /\ InnerPipeline.kind = "array"
    /\ Len(InnerPipeline.l) = Len(NestedStages) + 1
    /\ SubSeq(InnerPipeline.l, 1, Len(NestedStages)) = NestedStages
    /\ LET last == InnerPipeline.l[Len(InnerPipeline.l)]
       IN  /\ IsStage(last, "$project")
           /\ Range(Keys(Get(last, <<"$project">>))) = ExpectedSubFields
           /\ Len(Get(last, <<"$project">>).o) = Cardinality(ExpectedSubFields)
           /\ \A i \in DOMAIN Get(last, <<"$project">>).o :
                 Get(last, <<"$project">>).o[i].v = One
WithoutProjection ==
    IF UsedNested = Null THEN InnerPipeline = Undefined
    ELSE InnerPipeline = Arr(NestedStages)

\* C11 as stated: lookupWithNestedPipeline always builds the join; with
\* select given and a non-empty sub-field list the $lookup carries, after
\* the nested pipeline stages, a $project of exactly those sub-fields set
\* to 1; with an empty list the $lookup is still returned, without a
\* projection of its own.
C11_JoinAlwaysBuilt ==
    JoinPlanned =>
        /\ JoinBuilt
        /\ IF SelectGiven /\ ExpectedSubFields # {}
           THEN WithProjection ELSE WithoutProjection

\* C11, amended: without select the join is built with no projection of
\* its own; with select and a non-empty sub-field list (suffixes of the
\* externalDocument select entries and of the filter fields under the
\* prefix, a suffix that begins with a nested join's name replaced by that
\* name) the $lookup carries, after the nested pipeline stages, a $project
\* of exactly those sub-fields set to 1; with select and an empty list no
\* stage at all is returned.
C11_JoinPlanned ==
    JoinPlanned =>
        IF SelectGiven /\ ExpectedSubFields = {}
        THEN Stages = <<>>
        ELSE /\ JoinBuilt
             /\ IF SelectGiven THEN WithProjection ELSE WithoutProjection

\* A selected column, a loosely named one and a filtered one under a
\* nested join: the join of j keeps k and n.
C11_Witness ==
    /\ pc = "lookupWithNestedPipeline"
    /\ nestedPipeline = Arr(<<LookupStage(<<"n">>), SetStage(<<"n">>)>>)
    /\ fieldPath = Null
    /\ TheSelect = Arr(<<SelectEntry(FieldLoose, Bool(TRUE)), SelectEntry(FieldJoined, Bool(TRUE))>>)
    /\ TheQuery = Query1(FieldDeep, Arr(<<CondEquals>>))
    /\ Len(Stages) = IF isArray THEN 1 ELSE 2
    /\ Keys(Get(InnerPipeline.l[3], <<"$project">>)) = <<(<<"n">>), (<<"k">>)>>

-----------------------------------------------------------------------------
(* C12.  equals and typed identifiers.                                     *)

\* A string of exactly 24 hexadecimal characters.
Is24Hex(v) ==
    v.kind = "string" /\ Len(v.s) = 24 /\ \A i \in DOMAIN v.s : v.s[i] \in HexDigits
IdentifierOrLiteral(v) == IF Is24Hex(v) THEN ObjectId(v.s) ELSE v
EqualsExpected(k, v) ==
    IF IsArray(v)
    THEN Obj(<<KV(<<"$or">>,
                  Arr([i \in DOMAIN v.l |-> Obj(<<KV(k, IdentifierOrLiteral(v.l[i]))>>)]))>>)
    ELSE Obj(<<KV(k, IdentifierOrLiteral(v))>>)

\* C12: in the equals match mode a scalar value, or each element of a list
\* value, is compiled as an ObjectId if and only if it is a string of
\* exactly 24 hexadecimal characters; every other value (odd length, a
\* non-hexadecimal character, all-hex of another length such as 12) is
\* compiled as a literal equality on the unchanged value.
C12_EqualsIdentifier ==
    (pc = "createPropertyFilterRow" /\ RowMode = Str(<<"equals">>) /\ Truthy(RowValue))
        => ret = Ok(EqualsExpected(propertyName, RowValue))

-----------------------------------------------------------------------------
(* C13.  search: one compilation, one executor path.                       *)

Compiled ==
    createAggregation(paginatedQuery, lookup, append, appendPostConditions,
                      ignorePagination)
CallAt(i) == executorCalls[i]
HasSort(pipeline) == \E i \in DOMAIN pipeline.l : IsStage(pipeline.l[i], "$sort")
\* limit, with page and offset only when they are set and not zero.
NonZero(v) == v # Undefined /\ v # Num(<<"0">>)
ExpectedOptions ==
    LET offset == Get(paginatedQuery, <<"offset">>)
        page == Get(paginatedQuery, <<"page">>)
    IN  Obj((IF NonZero(offset) THEN <<KV(<<"offset">>, offset)>> ELSE <<>>)
            \o (IF NonZero(page) THEN <<KV(<<"page">>, page)>> ELSE <<>>)
            \o <<KV(<<"limit">>, Get(paginatedQuery, <<"limit">>))>>)
RowsReturned(v) == \E n \in 0..MaxRows : v = Rows(n)
CountReturned(v) ==
    \E n \in 0..MaxRows : v = Obj(<<KV(<<"searchCount">>, Num(<<ToString(n)>>))>>)
EnvelopeReturned(v) ==
    /\ v.kind = "object"
    /\ RowsReturned(Get(v, <<"docs">>))
    /\ \A i \in DOMAIN ExpectedOptions.o :
          Get(v, ExpectedOptions.o[i].k) = ExpectedOptions.o[i].v

\* C13: a successful search compiles the pipeline once, before any executor
\* call (every call carries that one pipeline), and takes exactly one
\* executor path: raw rows when skipPagination is set, whatever countOnly
\* is; otherwise {searchCount: number of rows} when countOnly is set;
\* otherwise the paginated envelope obtained with limit and the non-zero
\* page/offset.  skipPagination is the builder's skip-sort flag: $sort is
\* absent from the executed pipeline exactly when skipPagination is set or
\* sortKey is unset.
C13_SearchPaths ==
    Succeeded("search") =>
        /\ Compiled.err = "none"
        /\ Len(executorCalls) >= 1
        /\ \A i \in DOMAIN executorCalls : CallAt(i).pipeline = Compiled.val
        /\ IF ignorePagination
           THEN /\ RowsReturned(ret.val)
                /\ Len(executorCalls) = 1
                /\ CallAt(1).fn = "aggregate"
           ELSE IF countOnly
           THEN /\ CountReturned(ret.val)
                /\ Len(executorCalls) = 1
                /\ CallAt(1).fn = "aggregate"
           ELSE /\ EnvelopeReturned(ret.val)
                /\ Len(executorCalls) = 2
                /\ CallAt(1).fn = "aggregate"
                /\ CallAt(2).fn = "aggregatePaginate"
                /\ CallAt(2).options = ExpectedOptions
        /\ ~HasSort(CallAt(1).pipeline)
             <=> (ignorePagination \/ Get(paginatedQuery, <<"sortKey">>) = Undefined)

\* skipPagination and countOnly both set, a sort key given: raw rows, no $sort.
C13_Witness ==
    /\ Succeeded("search")
    /\ ignorePagination /\ countOnly
    /\ Get(paginatedQuery, <<"sortKey">>) = Str(FieldLocal)
    /\ ret.val = Rows(MaxRows)
    /\ Len(executorCalls) = 1
    /\ ~HasSort(CallAt(1).pipeline)

-----------------------------------------------------------------------------
(* C14.  The front projection keeps what the match stages test.            *)

\* The path itself or one of its dot-prefixes (its first segment, the
\* top-level join name, among them).
DotPrefixes(path) ==
    {path} \cup {SubSeq(path, 1, i - 1) : i \in {j \in DOMAIN path : path[j] = "."}}
Retains(keys, path) == DotPrefixes(path) \cap keys # {}
QuickSearchPaths ==
    IF Truthy(TheSearchQuery) /\ IsArray(Get(TheSearchQuery, <<"fields">>))
    THEN {f.s : f \in Range(Get(TheSearchQuery, <<"fields">>).l)}
    ELSE {}
FrontProjectionKeys == Range(Keys(Get(Stages[1], <<"$project">>)))

\* C14: whenever select is given, the $project stage createAggregation
\* places first retains every field the later $match stages test: for each
\* field path of query and each field path of searchQuery.fields, its key
\* set holds the path, a dot-prefix of it, or its top-level join name.
C14_ProjectionKeepsMatched ==
    (Succeeded("createAggregation") /\ TheSelect # Undefined)
        => /\ IsStage(Stages[1], "$project")
           /\ \A path \in FilterFieldNames \cup QuickSearchPaths :
                 Retains(FrontProjectionKeys, path)

=============================================================================
